---- MODULE Spec2Model ----
(***************************************************************************)
(* A model of autolysis.py: one run of the analysis pipeline, from module  *)
(* import to process exit.  Each function call of the script is one step;  *)
(* an exception nobody catches ends the process with exit status 1.        *)
(***************************************************************************)
EXTENDS Integers, Sequences, FiniteSets, TLC

VARIABLES
    pc,            \* the function about to run, or "exited"
    token,         \* AIPROXY_TOKEN is set in the environment
    argv_ok,       \* len(sys.argv) = 2
    readable,      \* the input path can be opened, decoded and parsed
    data,          \* the DataFrame held by analyze_and_generate_output
    loaded,        \* history: the DataFrame load_data returned
    numeric_data,  \* the local numeric_data of the stage that ran last
    analysis,      \* combined_analysis
    image_paths,   \* stage name -> path of its image, or None
    files,         \* the image files written to the working directory
    response,      \* what the narrative service answered
    narrative,     \* the local narrative of analyze_and_generate_output
    readme,        \* content of README.md as written by this run, or None
    exit_code,     \* the exit status, meaningful once pc = "exited"
    calls,         \* number of requests sent to the narrative service
    writes,        \* number of times README.md was written
    returned,      \* history: the artifact stages that have returned
    readme_error,  \* history: writing README.md raised
    raised         \* history: the function whose exception ended the run

vars == <<pc, token, argv_ok, readable, data, loaded, numeric_data, analysis,
          image_paths, files, response, narrative, readme, exit_code, calls,
          writes, returned, readme_error, raised>>

---------------------------------------------------------------------------
(* Bounds of the model *)

MaxRows == 2
MaxCols == 2
MaxLen == 6

(* Values of numeric cells in the pipeline runs and in the outlier runs *)
Values == {1, 2}
OutlierValues == {0, 1, 9}

---------------------------------------------------------------------------
(* Python values *)

None == "None"
EmptyDict == [k \in {} |-> None]
Get(d, k, default) == IF k \in DOMAIN d THEN d[k] ELSE default
Falsy(v) == v = None \/ v = ""

(* A cell is <<>> when the value is missing and <<v>> when it is present. *)
NA == <<>>
TextCell == <<"text">>

ColNames == <<"a", "b", "c", "d">>
ClusterCol == "cluster"

NumericColumns(r, cells) ==
    {[numeric |-> TRUE, vals |-> v] : v \in [1..r -> cells \cup {NA}]}
TextColumns(r) ==
    {[numeric |-> FALSE, vals |-> [i \in 1..r |-> TextCell]]}

Named(cols) ==
    [i \in 1..Len(cols) |->
        [name |-> ColNames[i], numeric |-> cols[i].numeric, vals |-> cols[i].vals]]

(* What pandas.read_csv can return: at least one column, every column with *)
(* the same number of rows; a file with only a header row has no numeric   *)
(* column.                                                                 *)
ColumnsOf(r) ==
    IF r = 0 THEN TextColumns(r)
    ELSE NumericColumns(r, {<<v>> : v \in Values}) \cup TextColumns(r)

Tables(r, c) == {[rows |-> r, cols |-> Named(cs)] : cs \in [1..c -> ColumnsOf(r)]}

NoTable == [rows |-> 0, cols |-> <<>>]

---------------------------------------------------------------------------
(* DataFrame operations *)

select_dtypes(t) ==
    [rows |-> t.rows, cols |-> SelectSeq(t.cols, LAMBDA c : c.numeric)]

Empty(t) == t.rows = 0 \/ Len(t.cols) = 0

Complete(t, i) == \A j \in 1..Len(t.cols) : t.cols[j].vals[i] # NA

RECURSIVE Keep(_, _, _)
Keep(vals, t, i) ==
    IF i > Len(vals) THEN <<>>
    ELSE IF Complete(t, i) THEN <<vals[i]>> \o Keep(vals, t, i + 1)
    ELSE Keep(vals, t, i + 1)

dropna(t) ==
    [rows |-> Cardinality({i \in 1..t.rows : Complete(t, i)}),
     cols |-> [j \in 1..Len(t.cols) |->
                 [t.cols[j] EXCEPT !.vals = Keep(t.cols[j].vals, t, 1)]]]

ColumnNames(t) == {t.cols[j].name : j \in 1..Len(t.cols)}
Column(t, n) == CHOOSE c \in {t.cols[j] : j \in 1..Len(t.cols)} : c.name = n

---------------------------------------------------------------------------
(* basic_analysis: per column, the number of present and of missing values *)
(* and the inferred type.                                                  *)

Present(vals) == SelectSeq(vals, LAMBDA x : x # NA)

BasicAnalysis(t) ==
    [summary |-> [n \in ColumnNames(t) |-> Len(Present(Column(t, n).vals))],
     missing_values |->
         [n \in ColumnNames(t) |-> t.rows - Len(Present(Column(t, n).vals))],
     column_info |->
         [n \in ColumnNames(t) |->
             IF Column(t, n).numeric THEN "number" ELSE "object"]]

---------------------------------------------------------------------------
(* outlier_detection.  Quantiles interpolate linearly between the order    *)
(* statistics, as pandas does; with q a multiple of 1/4 the quantile times *)
(* 4 is an integer, and the fences times 8 are integers.                   *)

RECURSIVE Insert(_, _)
Insert(x, s) ==
    IF s = <<>> THEN <<x>>
    ELSE IF x <= Head(s) THEN <<x>> \o s
    ELSE <<Head(s)>> \o Insert(x, Tail(s))

RECURSIVE Sort(_)
Sort(s) == IF s = <<>> THEN <<>> ELSE Insert(Head(s), Sort(Tail(s)))

Numbers(vals) == [i \in 1..Len(Present(vals)) |-> Present(vals)[i][1]]

(* 4 * quantile(k/4) of a non-empty sequence of numbers *)
Quantile4(xs, k) ==
    LET s == Sort(xs)
        h == k * (Len(s) - 1)
        lo == (h \div 4) + 1
        r == h % 4
    IN  IF r = 0 THEN 4 * s[lo]
        ELSE 4 * s[lo] + r * (s[lo + 1] - s[lo])

BelowFenceInclusive(x, q1, iqr) == 8 * x <= 2 * q1 - 3 * iqr

(* numeric_data < Q1 - 1.5 * IQR, with Q1 and IQR given times 4 *)
BelowFence(x, q1, iqr) == 8 * x < 2 * q1 - 3 * iqr
(* numeric_data > Q3 + 1.5 * IQR *)
AboveFence(x, q3, iqr) == 8 * x > 2 * q3 + 3 * iqr

(* A column with no present value has NaN quantiles, and no comparison     *)
(* with NaN is true.                                                       *)
OutlierCount(vals) ==
    LET xs == Numbers(vals) IN
    IF Len(xs) = 0 THEN 0
    ELSE LET q1 == Quantile4(xs, 1)
             q3 == Quantile4(xs, 3)
             iqr == q3 - q1
         IN  Cardinality({i \in 1..Len(xs) :
                 BelowFence(xs[i], q1, iqr) \/ AboveFence(xs[i], q3, iqr)})

Outliers(t) ==
    LET nd == select_dtypes(t) IN
    [n \in ColumnNames(nd) |-> OutlierCount(Column(nd, n).vals)]

---------------------------------------------------------------------------
(* The narrative service *)

RequestErrorText ==
    "Error: Unable to generate narrative. Please check the AI service."
NoNarrativeText == "No narrative generated."
NarrativeFailedText ==
    "Error: Narrative generation failed. Please verify the AI service."
Heading == "Dataset Analysis: "
GeneratedText == "A story about the dataset."

Choice(content) == [choices |-> <<[message |-> [content |-> content]]>>]

Bodies ==
    {EmptyDict,
     [choices |-> <<>>],
     [choices |-> <<EmptyDict>>],
     [choices |-> <<[message |-> EmptyDict]>>],
     Choice(""), Choice(None), Choice(GeneratedText)}

(* requests.post raises (transport), or answers with a status and a body   *)
(* that is JSON or not.                                                    *)
Responses ==
    {[transport |-> FALSE, status |-> 200, is_json |-> TRUE, body |-> b] :
        b \in Bodies}
    \cup {[transport |-> FALSE, status |-> 200, is_json |-> FALSE, body |-> EmptyDict],
          [transport |-> FALSE, status |-> 500, is_json |-> FALSE, body |-> EmptyDict],
          [transport |-> TRUE, status |-> 0, is_json |-> FALSE, body |-> EmptyDict]}

NoResponse == [transport |-> FALSE, status |-> 0, is_json |-> FALSE, body |-> EmptyDict]

TransportErrorOnly(r) == r.transport

(* requests.exceptions.RequestException from post or raise_for_status *)
RequestException(r) == r.transport \/ r.status >= 400

(* response.json() raises on a body that is not JSON, [0] on an empty list *)
JsonRaises(r) ==
    \/ ~r.is_json
    \/ Get(r.body, "choices", <<EmptyDict>>) = <<>>

Content(r) ==
    Get(Get(Get(r.body, "choices", <<EmptyDict>>)[1], "message", EmptyDict),
        "content", NoNarrativeText)

---------------------------------------------------------------------------
(* The artifact stages *)

Stages ==
    {"correlation_matrix", "pca_plot", "dbscan_clusters", "hierarchical_clustering"}

(* save_plot: the path of the image of a plot *)
PlotPath(plot_name) == plot_name \o ".png"

MinSamples == 5
Noise == -1

(* DBSCAN(eps=0.5, min_samples=5).fit_predict: a row is a core point when  *)
(* its neighbourhood, itself included, holds min_samples rows; with fewer  *)
(* rows than that every row is noise.                                      *)
DbscanLabels(t) ==
    CASE t.rows < MinSamples -> [i \in 1..t.rows |-> <<Noise>>]

(* numeric_data['cluster'] = clusters *)
WithCluster(t) ==
    [t EXCEPT !.cols =
        Append(@, [name |-> ClusterCol, numeric |-> TRUE, vals |-> DbscanLabels(t)])]

(* StandardScaler rejects an array with no row; PCA(n_components=2) needs  *)
(* at least 2 rows and 2 columns.                                          *)
PcaRaises(t) == t.rows < 2

(* linkage needs at least 2 observations *)
LinkageRaises(t) == t.rows < 2

FinalNarrativeUnchecked(n) == n

(* lines 203-204: a narrative that is None or empty is replaced *)
FinalNarrative(n) == IF Falsy(n) THEN NarrativeFailedText ELSE n

---------------------------------------------------------------------------
(* Steps *)

Exit(code) == pc' = "exited" /\ exit_code' = code

(* A stage returns result (a path or None) to analyze_and_generate_output *)
StageReturns(stage, result, next) ==
    /\ image_paths' = [image_paths EXCEPT ![stage] = result]
    /\ files' = IF result = None THEN files ELSE files \cup {result}
    /\ returned' = returned \cup {stage}
    /\ pc' = next
    /\ UNCHANGED <<exit_code, raised>>

(* An exception leaves the function; no caller catches it, and the         *)
(* interpreter ends the process with status 1.                             *)
Uncaught(where) ==
    /\ Exit(1)
    /\ raised' = where
    /\ UNCHANGED <<image_paths, files, returned>>

(* The plot is drawn and saved, or drawing or saving it raises *)
Render(stage, next) ==
    \E ok \in BOOLEAN :
        IF ok THEN StageReturns(stage, PlotPath(stage), next)
        ELSE Uncaught(stage)

Init ==
    /\ pc = "import"
    /\ token \in BOOLEAN
    /\ argv_ok \in BOOLEAN
    /\ readable \in BOOLEAN
    /\ data = NoTable
    /\ loaded = NoTable
    /\ numeric_data = NoTable
    /\ analysis = EmptyDict
    /\ image_paths = [s \in Stages |-> None]
    /\ files = {}
    /\ response = NoResponse
    /\ narrative = None
    /\ readme = None
    /\ exit_code = 0
    /\ calls = 0
    /\ writes = 0
    /\ returned = {}
    /\ readme_error = FALSE
    /\ raised = None

module_import_unchecked ==
    /\ pc = "import"
    /\ pc' = "main"
    /\ UNCHANGED <<token, argv_ok, readable, data, loaded, numeric_data, analysis,
                   image_paths, files, response, narrative, readme, exit_code,
                   calls, writes, returned, readme_error, raised>>

(* lines 24-37: without the token the import itself exits *)
module_import ==
    /\ pc = "import"
    /\ IF ~token THEN Exit(1) ELSE pc' = "main" /\ UNCHANGED exit_code
    /\ UNCHANGED <<token, argv_ok, readable, data, loaded, numeric_data, analysis,
                   image_paths, files, response, narrative, readme, calls,
                   writes, returned, readme_error, raised>>

main ==
    /\ pc = "main"
    /\ IF ~argv_ok THEN Exit(1) ELSE pc' = "load_data" /\ UNCHANGED exit_code
    /\ UNCHANGED <<token, argv_ok, readable, data, loaded, numeric_data, analysis,
                   image_paths, files, response, narrative, readme, calls,
                   writes, returned, readme_error, raised>>

HeaderOnly == [rows |-> 0, cols |-> Named(<<[numeric |-> FALSE, vals |-> <<>>]>>)]

load_data_swallows ==
    /\ pc = "load_data"
    /\ \E r \in 0..MaxRows, c \in 1..MaxCols :
        \E t \in (IF readable THEN Tables(r, c) ELSE {HeaderOnly}) :
            /\ data' = t
            /\ loaded' = t
            /\ pc' = "basic_analysis"
    /\ UNCHANGED <<token, argv_ok, readable, numeric_data, analysis, image_paths,
                   files, response, narrative, readme, exit_code, calls, writes,
                   returned, readme_error, raised>>

(* any exception while opening, decoding or parsing the file ends the run *)
load_data ==
    /\ pc = "load_data"
    /\ IF readable
       THEN \E r \in 0..MaxRows, c \in 1..MaxCols : \E t \in Tables(r, c) :
                /\ data' = t
                /\ loaded' = t
                /\ pc' = "basic_analysis"
                /\ UNCHANGED exit_code
       ELSE Exit(1) /\ UNCHANGED <<data, loaded>>
    /\ UNCHANGED <<token, argv_ok, readable, numeric_data, analysis, image_paths,
                   files, response, narrative, readme, calls, writes, returned,
                   readme_error, raised>>

basic_analysis ==
    /\ pc = "basic_analysis"
    /\ analysis' = BasicAnalysis(data)
    /\ pc' = "outlier_detection"
    /\ UNCHANGED <<token, argv_ok, readable, data, loaded, numeric_data,
                   image_paths, files, response, narrative, readme, exit_code,
                   calls, writes, returned, readme_error, raised>>

outlier_detection ==
    /\ pc = "outlier_detection"
    /\ numeric_data' = select_dtypes(data)
    /\ analysis' = [k \in DOMAIN analysis \cup {"outliers"} |->
                       IF k = "outliers" THEN Outliers(data) ELSE analysis[k]]
    /\ pc' = "correlation_matrix"
    /\ UNCHANGED <<token, argv_ok, readable, data, loaded, image_paths, files,
                   response, narrative, readme, exit_code, calls, writes,
                   returned, readme_error, raised>>

generate_correlation_matrix ==
    /\ pc = "correlation_matrix"
    /\ LET nd == select_dtypes(data) IN
       /\ numeric_data' = nd
       /\ IF Empty(nd) THEN StageReturns("correlation_matrix", None, "pca_plot")
          ELSE Render("correlation_matrix", "pca_plot")
    /\ UNCHANGED <<token, argv_ok, readable, data, loaded, analysis, response,
                   narrative, readme, calls, writes, readme_error>>

generate_pca_plot ==
    /\ pc = "pca_plot"
    /\ LET nd == dropna(select_dtypes(data)) IN
       /\ numeric_data' = nd
       /\ IF Len(nd.cols) < 2 THEN StageReturns("pca_plot", None, "dbscan_clusters")
          ELSE IF PcaRaises(nd) THEN Uncaught("pca_plot")
          ELSE Render("pca_plot", "dbscan_clusters")
    /\ UNCHANGED <<token, argv_ok, readable, data, loaded, analysis, response,
                   narrative, readme, calls, writes, readme_error>>

DbscanStage(in_place) ==
    /\ pc = "dbscan_clusters"
    /\ LET nd == dropna(select_dtypes(data)) IN
       IF Empty(nd)
       THEN /\ numeric_data' = nd
            /\ data' = data
            /\ StageReturns("dbscan_clusters", None, "hierarchical_clustering")
       ELSE /\ numeric_data' = WithCluster(nd)
            /\ data' = IF in_place THEN WithCluster(data) ELSE data
            /\ Render("dbscan_clusters", "hierarchical_clustering")
    /\ UNCHANGED <<token, argv_ok, readable, loaded, analysis, response,
                   narrative, readme, calls, writes, readme_error>>

dbscan_clustering_in_place == DbscanStage(TRUE)

(* numeric_data is a new DataFrame (select_dtypes and dropna copy), so the *)
(* cluster column is attached to the copy.                                 *)
dbscan_clustering == DbscanStage(FALSE)

hierarchical_clustering ==
    /\ pc = "hierarchical_clustering"
    /\ LET nd == dropna(select_dtypes(data)) IN
       /\ numeric_data' = nd
       /\ IF Empty(nd)
          THEN StageReturns("hierarchical_clustering", None, "get_ai_story")
          ELSE IF LinkageRaises(nd) THEN Uncaught("hierarchical_clustering")
          ELSE Render("hierarchical_clustering", "get_ai_story")
    /\ UNCHANGED <<token, argv_ok, readable, data, loaded, analysis, response,
                   narrative, readme, calls, writes, readme_error>>

StoryCall(retries) ==
    /\ pc = "get_ai_story"
    /\ \E r \in Responses :
        /\ response' = r
        /\ calls' = calls + 1
        /\ IF RequestException(r)
           THEN IF calls < retries
                THEN UNCHANGED <<pc, narrative, exit_code, raised>>
                ELSE /\ narrative' = RequestErrorText
                     /\ pc' = "save_readme"
                     /\ UNCHANGED <<exit_code, raised>>
           ELSE IF JsonRaises(r)
           THEN /\ Exit(1)
                /\ raised' = "get_ai_story"
                /\ UNCHANGED narrative
           ELSE /\ narrative' = Content(r)
                /\ pc' = "save_readme"
                /\ UNCHANGED <<exit_code, raised>>
    /\ UNCHANGED <<token, argv_ok, readable, data, loaded, numeric_data, analysis,
                   image_paths, files, readme, writes, returned, readme_error>>

get_ai_story_retrying == StoryCall(1)

(* one request; a RequestException is caught and answered with the fixed   *)
(* text, any other exception leaves the function                           *)
get_ai_story == StoryCall(0)

(* lines 203-205 and save_readme: the write succeeds, or it raises and     *)
(* save_readme exits with status 1.                                        *)
save_readme ==
    /\ pc = "save_readme"
    /\ narrative' = FinalNarrative(narrative)
    /\ \E ok \in BOOLEAN :
        IF ok
        THEN /\ readme' = Heading \o FinalNarrative(narrative)
             /\ writes' = writes + 1
             /\ pc' = "return"
             /\ UNCHANGED <<exit_code, readme_error>>
        ELSE /\ Exit(1)
             /\ readme_error' = TRUE
             /\ UNCHANGED <<readme, writes>>
    /\ UNCHANGED <<token, argv_ok, readable, data, loaded, numeric_data, analysis,
                   image_paths, files, response, calls, returned, raised>>

(* analyze_and_generate_output and main return; the process ends normally *)
main_return ==
    /\ pc = "return"
    /\ Exit(0)
    /\ UNCHANGED <<token, argv_ok, readable, data, loaded, numeric_data, analysis,
                   image_paths, files, response, narrative, readme, calls,
                   writes, returned, readme_error, raised>>

Next ==
    \/ module_import
    \/ main
    \/ load_data
    \/ basic_analysis
    \/ outlier_detection
    \/ generate_correlation_matrix
    \/ generate_pca_plot
    \/ dbscan_clustering
    \/ hierarchical_clustering
    \/ get_ai_story
    \/ save_readme
    \/ main_return

Spec == Init /\ [][Next]_vars

---------------------------------------------------------------------------
(* outlier_detection alone, on one numeric column of up to MaxLen cells *)

OutlierTables(r) ==
    {[rows |-> r, cols |-> Named(<<c>>)] :
        c \in NumericColumns(r, {<<v>> : v \in OutlierValues})}

OutlierInit ==
    /\ pc = "outlier_detection"
    /\ token = TRUE
    /\ argv_ok = TRUE
    /\ readable = TRUE
    /\ \E r \in 1..MaxLen : data \in OutlierTables(r)
    /\ loaded = data
    /\ numeric_data = NoTable
    /\ analysis = BasicAnalysis(data)
    /\ image_paths = [s \in Stages |-> None]
    /\ files = {}
    /\ response = NoResponse
    /\ narrative = None
    /\ readme = None
    /\ exit_code = 0
    /\ calls = 0
    /\ writes = 0
    /\ returned = {}
    /\ readme_error = FALSE
    /\ raised = None

OutlierSpec == OutlierInit /\ [][outlier_detection]_vars

---------------------------------------------------------------------------
(* Properties *)

(* A stage has acted once it has returned or raised *)
Acted(stage) == stage \in returned \/ raised = stage

NumericColumnCount == Len(select_dtypes(loaded).cols)
RetainedRows == dropna(select_dtypes(loaded)).rows

(* The request met a transport error or an HTTP error status *)
CallFailed == calls >= 1 /\ (response.transport \/ response.status >= 400)

(* The request succeeded with a JSON body *)
CallAnswered ==
    /\ calls >= 1
    /\ ~response.transport
    /\ response.status < 400
    /\ response.is_json
    /\ Get(response.body, "choices", <<EmptyDict>>) # <<>>

AnsweredMessage == Get(Get(response.body, "choices", <<EmptyDict>>)[1], "message", EmptyDict)

(* ... whose content is the empty string or null *)
AnsweredEmpty ==
    /\ CallAnswered
    /\ "content" \in DOMAIN AnsweredMessage
    /\ AnsweredMessage["content"] \in {"", None}

(* ... which holds no content at all *)
AnsweredNothing == CallAnswered /\ "content" \notin DOMAIN AnsweredMessage

(* C1: an exception raised while one of the four artifacts is produced     *)
(* does not abort the run: the artifact is absent, the other three stages  *)
(* still run, and the run reaches the narrative call and the report write. *)
C1_StageFailureDoesNotAbort ==
    raised \in Stages =>
        /\ image_paths[raised] = None
        /\ pc = "exited" =>
              /\ Stages \ {raised} \subseteq returned
              /\ calls = 1
              /\ writes = 1 \/ readme_error

(* C2: with fewer than 2 numeric columns, generate_correlation_matrix and  *)
(* generate_pca_plot both return None and neither image is written.        *)
C2_FewNumericColumnsNoArtifact ==
    \A s \in {"correlation_matrix", "pca_plot"} :
        (NumericColumnCount < 2 /\ s \in returned) =>
            /\ image_paths[s] = None
            /\ PlotPath(s) \notin files

(* C3: with at least 2 numeric columns and fewer than 2 rows left after    *)
(* dropping rows with a missing value, generate_pca_plot returns None      *)
(* instead of raising, and the run goes on to the next stage.              *)
C3_FewRowsPcaNotApplicable ==
    (NumericColumnCount >= 2 /\ RetainedRows < 2 /\ Acted("pca_plot")) =>
        /\ "pca_plot" \in returned
        /\ image_paths["pca_plot"] = None
        /\ PlotPath("pca_plot") \notin files
        /\ raised # "pca_plot"

(* C4: when the input cannot be read, the process exits with a non-zero    *)
(* status; at no point of the run is an image or the report written, and   *)
(* the narrative service is never called.                                  *)
C4_UnreadableInputExits ==
    ~readable =>
        /\ pc \in {"import", "main", "load_data", "exited"}
        /\ pc = "exited" => exit_code # 0
        /\ files = {}
        /\ readme = None
        /\ writes = 0
        /\ calls = 0

C4_Witness ==
    /\ ~readable
    /\ token
    /\ argv_ok
    /\ pc = "exited"
    /\ exit_code = 1

(* C5, as claimed: when the narrative call fails, the report is still      *)
(* written, holding the heading and the placeholder, and the exit status   *)
(* is zero.                                                                *)
C5_FailedCallReportWritten ==
    (CallFailed /\ pc = "exited") =>
        /\ readme = Heading \o RequestErrorText
        /\ exit_code = 0

(* C5, amended: when the narrative call fails, the failure does not        *)
(* propagate and the run goes on to write the report; unless writing the   *)
(* report itself fails, the report holds the heading and the placeholder   *)
(* and the exit status is zero; if the write fails, nothing is written and *)
(* the exit status is 1.                                                   *)
C5_FailedCallDegrades ==
    CallFailed =>
        /\ raised = None
        /\ narrative = RequestErrorText
        /\ pc \in {"save_readme", "return", "exited"}
        /\ (pc # "save_readme" /\ ~readme_error) =>
              /\ readme = Heading \o RequestErrorText
              /\ writes = 1
        /\ readme_error => readme = None /\ writes = 0
        /\ pc = "exited" => exit_code = (IF readme_error THEN 1 ELSE 0)

C5_Witness ==
    /\ CallFailed
    /\ response.status = 500
    /\ pc = "exited"
    /\ exit_code = 0
    /\ readme = Heading \o RequestErrorText

(* C6: without the token the process exits with a non-zero status at       *)
(* import: the input is never read, no stage runs, nothing is written and  *)
(* the narrative service is never called.                                  *)
C6_MissingTokenExitsFirst ==
    ~token =>
        /\ pc \in {"import", "exited"}
        /\ pc = "exited" => exit_code # 0
        /\ data = NoTable
        /\ loaded = NoTable
        /\ DOMAIN analysis = {}
        /\ returned = {}
        /\ files = {}
        /\ readme = None
        /\ writes = 0
        /\ calls = 0

C6_Witness ==
    /\ ~token
    /\ argv_ok
    /\ readable
    /\ pc = "exited"
    /\ exit_code = 1

(* C7: a numeric column whose present values are all equal has both        *)
(* quartiles, and so both fences, at that value, and outlier_detection     *)
(* reports 0 outliers for it.                                              *)
ConstantColumn(c) ==
    /\ Len(Present(c.vals)) >= 1
    /\ \A i, j \in 1..Len(Present(c.vals)) : Present(c.vals)[i] = Present(c.vals)[j]

C7_ConstantColumnNoOutliers ==
    "outliers" \in DOMAIN analysis =>
        \A n \in ColumnNames(select_dtypes(data)) :
            LET c == Column(data, n)
                xs == Numbers(c.vals)
            IN  ConstantColumn(c) =>
                    /\ Quantile4(xs, 1) = 4 * xs[1]
                    /\ Quantile4(xs, 3) = 4 * xs[1]
                    /\ analysis["outliers"][n] = 0

C7_Witness ==
    /\ "outliers" \in DOMAIN analysis
    /\ \E n \in ColumnNames(select_dtypes(data)) :
          /\ ConstantColumn(Column(data, n))
          /\ Len(Present(Column(data, n).vals)) >= 4
          /\ Len(Present(Column(data, n).vals)) < data.rows
          /\ analysis["outliers"][n] = 0

(* C8: dbscan_clustering attaches the cluster column to its own copy: the  *)
(* DataFrame of analyze_and_generate_output stays the one load_data        *)
(* returned, and hierarchical_clustering sees no cluster column.           *)
C8_SharedTableUnchanged ==
    /\ data = loaded
    /\ ClusterCol \notin ColumnNames(data)
    /\ Acted("hierarchical_clustering") => ClusterCol \notin ColumnNames(numeric_data)

C8_Witness ==
    /\ pc = "hierarchical_clustering"
    /\ "dbscan_clusters" \in returned
    /\ ClusterCol \in ColumnNames(numeric_data)
    /\ data = loaded

(* C9, as claimed: a run whose narrative call fails and a run whose call   *)
(* succeeds with empty or no text write the same placeholder, the one of   *)
(* the failed call.                                                        *)
C9_SamePlaceholder ==
    (writes = 1 /\ (CallFailed \/ AnsweredEmpty \/ AnsweredNothing)) =>
        readme = Heading \o RequestErrorText

(* C9, amended: each of these runs writes a fixed placeholder in place of  *)
(* generated text, but not the same one: the failed call's, the one for an *)
(* empty or null content, and the one for a response without content.      *)
C9_PlaceholderPerOutcome ==
    writes = 1 =>
        /\ CallFailed => readme = Heading \o RequestErrorText
        /\ AnsweredEmpty => readme = Heading \o NarrativeFailedText
        /\ AnsweredNothing => readme = Heading \o NoNarrativeText

C9_Witness ==
    /\ writes = 1
    /\ AnsweredEmpty
    /\ AnsweredMessage["content"] = ""
    /\ readme = Heading \o NarrativeFailedText

(* C10: the narrative service is called at most once, and only after all   *)
(* four stages have returned; the report is written at most once, and only *)
(* after the call has returned; the images written before the call are     *)
(* still there after it, also when it failed.                              *)
C10_OneCallAfterStages ==
    /\ calls <= 1
    /\ calls = 1 => Stages \subseteq returned
    /\ writes <= 1
    /\ writes = 1 => calls = 1 /\ raised = None /\ pc \in {"return", "exited"}
    /\ \A s \in returned : image_paths[s] # None => image_paths[s] \in files

C10_Witness ==
    /\ CallFailed
    /\ calls = 1
    /\ writes = 1
    /\ Cardinality(files) = 4

====
